---- MODULE Spec2Model ----
(***************************************************************************)
(* BusinessLogicCentralService (ng-business-logic-central): a registry     *)
(* that maps event names to ordered lists of instructions, with            *)
(* addInstructionToEvent to register, doEvent to fire, and the compiled    *)
(* executeInstructionsForEvent of the same file.                           *)
(*                                                                         *)
(* JavaScript values are modelled by what the code does with them:         *)
(*   - a property key is a string; a value used as a key is converted     *)
(*     (undefined -> "undefined", a plain object -> "[object Object]");    *)
(*   - the registry object is a function from its own property keys to     *)
(*     event records; members it inherits (hasOwnProperty) are shadowed    *)
(*     by an own property of the same name;                                *)
(*   - the eventParameters array is one shared mutable cell.               *)
(* Instructions are caller code; the model supplies five of them.          *)
(***************************************************************************)
EXTENDS Integers, Sequences, FiniteSets, TLC

\* Bound: total number of instructions that are ever registered.
MaxAdds == 3

\* Event names clients use.  "undefined" and "[object Object]" are ordinary
\* strings; they are also what a non-string value becomes as a property key.
EventNames == {"routeX", "undefined", "[object Object]"}

\* Every name of EventNames, and the name of the inherited member the
\* service calls on its registry object.
AnyNames == EventNames \cup {"hasOwnProperty"}

\* The instructions clients register (BusinessLogicInstruction values):
\*   isOver14Days  (args) => !!args && args[0] > 14
\*   isLoggedOut   (args) => !!args && !args[0]
\*   resetDays     (args) => { if (args) args[0] = 0; return false; }
\*   failing       ()     => { throw new Error(); }
\*   registerMore  ()     => { service.addInstructionToEvent(registerMore, 'routeX'); return false; }
Instructions == {"isOver14Days", "isLoggedOut", "resetDays", "failing", "registerMore"}

\* The event name registerMore registers itself to.
RegisterMoreTarget == "routeX"

Undefined == [type |-> "undefined"]

Array(items) == [type |-> "array", items |-> items]

\* Values of eventParameters that callers pass.
ParameterValues == {Array(<<20>>), Array(<<0>>)}

\* Arguments of doEvent / executeInstructionsForEvent: a BusinessLogicEvent
\* descriptor, or (as in the README) the plain event-name string.
Descriptors(names) == [type : {"object"}, eventName : names, eventParameters : ParameterValues]

PlainStrings(names) == [type : {"string"}, value : names]

NoEvent == [type |-> "none"]

\* Bound: number of addInstructionToEvent calls that are interleaved.
MaxCalls == 2

\* Callers whose addInstructionToEvent calls are interleaved step by step.
Callers == {"first", "second"}

\* A caller that has made no call yet.
NoCall == [at |-> "idle", instruction |-> "none", eventName |-> "none", absent |-> FALSE]

VARIABLES
    businessLogicEvents,  \* this._businessLogicEvents: own property key -> event record
    pc,                   \* "idle" | "loop" | "returned" | "thrown": position of the latest call
    entry,                \* which method the latest call is
    event,                \* the argument of the latest firing, as passed
    eventParameters,      \* current contents of the array event.eventParameters refers to
    i,                    \* position of the loop in the instruction list (1-based)
    result,               \* "none" | "void" | "true" | "false": what the latest call returned
    invoked,              \* history: instructions invoked by the latest firing
    added,                \* history: per name, the instructions passed to addInstructionToEvent
    eventsAtCall,         \* history: the registry when the latest call began
    calls                 \* per caller, its addInstructionToEvent call when calls are interleaved

vars == <<businessLogicEvents, pc, entry, event, eventParameters, i, result, invoked, added,
          eventsAtCall, calls>>

----------------------------------------------------------------------------
\* JavaScript helpers

\* obj.hasOwnProperty(key): the member is looked up on obj first, so an own
\* property named "hasOwnProperty" (an event record, not a function) is what
\* gets called.
HasOwnProperty(obj, key) ==
    IF "hasOwnProperty" \in DOMAIN obj THEN "TypeError"
    ELSE IF key \in DOMAIN obj THEN "true" ELSE "false"

\* Object.defineProperty(obj, key, {value, writable, enumerable, configurable})
DefineProperty(obj, key, value) ==
    [k \in DOMAIN obj \cup {key} |-> IF k = key THEN value ELSE obj[k]]

\* event.eventName used as a property key: a string has no eventName member.
EventNameKey(ev) == IF ev.type = "object" THEN ev.eventName ELSE "undefined"

\* event itself used as a property key.
EventKey(ev) == IF ev.type = "object" THEN "[object Object]" ELSE ev.value

\* event.eventParameters
EventParametersOf(ev) == IF ev.type = "object" THEN ev.eventParameters ELSE Undefined

RECURSIVE SumLengths(_, _)
SumLengths(f, keys) ==
    IF keys = {} THEN 0
    ELSE LET k == CHOOSE x \in keys : TRUE
         IN Len(f[k]) + SumLengths(f, keys \ {k})

\* Number of addInstructionToEvent calls so far.
TotalAdds == SumLengths(added, AnyNames)

----------------------------------------------------------------------------
\* The service

\* An _initializeEvent without its bail-out: the entry is defined anew.
InitializeEventNoBail(evs, eventName) ==
    DefineProperty(evs, eventName, [eventName |-> eventName, eventInstructions |-> <<>>])

\* An _initializeEvent that assigns a new registry object holding only the
\* new event.
InitializeEventReplacing(evs, eventName) ==
    IF eventName \in DOMAIN evs THEN evs
    ELSE [k \in {eventName} |-> [eventName |-> eventName, eventInstructions |-> <<>>]]

\* _initializeEvent(eventName), on a registry on which hasOwnProperty works
InitializeEvent(evs, eventName) ==
    IF eventName \in DOMAIN evs THEN evs
    ELSE DefineProperty(evs, eventName,
                        [eventName |-> eventName, eventInstructions |-> <<>>])

\* addInstructionToEvent with the existence check left out: the entry is
\* defined anew on every call.
AddInstructionToEventReset(evs, instruction, eventName) ==
    IF HasOwnProperty(evs, eventName) = "TypeError"
    THEN [error |-> TRUE, events |-> evs]
    ELSE LET fresh == DefineProperty(evs, eventName,
                          [eventName |-> eventName, eventInstructions |-> <<>>])
         IN [error |-> FALSE,
             events |-> [fresh EXCEPT ![eventName].eventInstructions = Append(@, instruction)]]

\* An addInstructionToEvent that returns right after initializing a new
\* event, without the push.
AddInstructionToEventInitOnly(evs, instruction, eventName) ==
    IF HasOwnProperty(evs, eventName) = "TypeError"
    THEN [error |-> TRUE, events |-> evs]
    ELSE IF HasOwnProperty(evs, eventName) = "false"
         THEN [error |-> FALSE, events |-> InitializeEvent(evs, eventName)]
         ELSE [error |-> FALSE,
               events |-> [evs EXCEPT ![eventName].eventInstructions = Append(@, instruction)]]

\* addInstructionToEvent(instruction, eventName): the registry afterwards,
\* and whether the call ended in a TypeError.
AddInstructionToEvent(evs, instruction, eventName) ==
    IF HasOwnProperty(evs, eventName) = "TypeError"
    THEN [error |-> TRUE, events |-> evs]
    ELSE LET initialized == IF HasOwnProperty(evs, eventName) = "false"
                            THEN InitializeEvent(evs, eventName)
                            ELSE evs
         IN [error |-> FALSE,
             events |-> [initialized EXCEPT
                            ![eventName].eventInstructions = Append(@, instruction)]]

\* A doEvent that answers true for a name it does not know.
DoEventEarlyReturnTrue(evs, eventName) ==
    CASE HasOwnProperty(evs, eventName) = "TypeError" -> "TypeError"
      [] HasOwnProperty(evs, eventName) = "false" -> "true"
      [] OTHER -> IF Len(evs[eventName].eventInstructions) = 0 THEN "false" ELSE "none"

\* doEvent before its loop: "TypeError", the early result "false", or "none"
\* when the loop is entered.
DoEventEarlyReturn(evs, eventName) ==
    CASE HasOwnProperty(evs, eventName) = "TypeError" -> "TypeError"
      [] HasOwnProperty(evs, eventName) = "false" -> "false"
      [] OTHER -> IF Len(evs[eventName].eventInstructions) = 0 THEN "false" ELSE "none"

\* A doEvent that initializes the event it is asked to fire.
DoEventInitializes(evs, eventName) ==
    IF "hasOwnProperty" \in DOMAIN evs THEN evs ELSE InitializeEvent(evs, eventName)

\* What doEvent itself writes to the registry: nothing.
DoEventRegistryEffect(evs, eventName) == evs

\* A loop that hands every instruction a fresh copy of the parameters as passed.
ArgumentsCopied(ev, current) == EventParametersOf(ev)

\* instruction(event.eventParameters): the argument is the array itself.
ArgumentsFor(ev, current) == current

\* A loop over a copy of the list taken when the method was called.
IteratedSnapshot(evs, atCall, eventName) == atCall[eventName].eventInstructions

\* The list the loop iterates: the event's eventInstructions array itself,
\* read anew at every iteration.
IteratedInstructions(evs, atCall, eventName) == evs[eventName].eventInstructions

\* A loop without the break.
NeverBreaks(outcome) == FALSE

\* if (outcome) break;
Breaks(outcome) == outcome = "true"

\* A loop that catches what an instruction throws and goes on.
Swallowed(outcome) == FALSE

\* An exception of the instruction leaves the loop and the method.
Propagates(outcome) == outcome = "throw"

\* A doEvent that reports whether an instruction applied.
ResultIsOutcome(outcome) == IF outcome = "true" THEN "true" ELSE "false"

\* return true after the loop, whatever the last outcome was.
ResultAfterLoop(outcome) == "true"

----------------------------------------------------------------------------
\* The instructions

\* What the instruction does to the array it received.
ArgsAfter(instruction, args) ==
    IF instruction = "resetDays" /\ args.type = "array" /\ Len(args.items) > 0
    THEN Array([args.items EXCEPT ![1] = 0])
    ELSE args

\* What the instruction returns ("true" / "false") or "throw".
Outcome(instruction, args, addError) ==
    CASE instruction = "isOver14Days" ->
            IF args.type = "array" /\ Len(args.items) > 0 /\ args.items[1] > 14
            THEN "true" ELSE "false"
      [] instruction = "isLoggedOut" ->
            IF args.type = "array" /\ Len(args.items) > 0 /\ args.items[1] = 0
            THEN "true" ELSE "false"
      [] instruction = "resetDays" -> "false"
      [] instruction = "failing" -> "throw"
      [] instruction = "registerMore" -> IF addError THEN "throw" ELSE "false"

----------------------------------------------------------------------------
\* State machine

Init ==
    /\ businessLogicEvents = <<>>
    /\ pc = "idle"
    /\ entry = "none"
    /\ event = NoEvent
    /\ eventParameters = Undefined
    /\ i = 0
    /\ result = "none"
    /\ invoked = <<>>
    /\ added = [n \in AnyNames |-> <<>>]
    /\ eventsAtCall = <<>>
    /\ calls = [c \in Callers |-> NoCall]

\* A client calls addInstructionToEvent(instruction, eventName).
CallAddInstructionToEvent(instruction, eventName) ==
    /\ pc # "loop"
    /\ TotalAdds < MaxAdds
    /\ LET r == AddInstructionToEvent(businessLogicEvents, instruction, eventName)
       IN /\ businessLogicEvents' = r.events
          /\ pc' = IF r.error THEN "thrown" ELSE "returned"
          /\ result' = IF r.error THEN "none" ELSE "void"
    /\ added' = [added EXCEPT ![eventName] = Append(@, instruction)]
    /\ entry' = "addInstructionToEvent"
    /\ event' = NoEvent
    /\ eventParameters' = Undefined
    /\ i' = 0
    /\ invoked' = <<>>
    /\ eventsAtCall' = businessLogicEvents
    /\ UNCHANGED calls

\* One iteration of the loop over the instruction list of event.eventName:
\* the instruction at position i is invoked; then the loop breaks, goes on,
\* or is left because the list is exhausted or the instruction threw.
LoopIteration ==
    LET name == EventNameKey(event)
        instruction == IteratedInstructions(businessLogicEvents, eventsAtCall, name)[i]
        adds == instruction = "registerMore"
        r == IF adds
             THEN AddInstructionToEvent(businessLogicEvents, "registerMore", RegisterMoreTarget)
             ELSE [error |-> FALSE, events |-> businessLogicEvents]
        received == ArgumentsFor(event, eventParameters)
        outcome == Outcome(instruction, received, r.error)
    IN /\ adds => TotalAdds < MaxAdds
       /\ businessLogicEvents' = r.events
       /\ added' = IF adds
                   THEN [added EXCEPT ![RegisterMoreTarget] = Append(@, "registerMore")]
                   ELSE added
       /\ eventParameters' = ArgsAfter(instruction, received)
       /\ invoked' = Append(invoked, [instruction |-> instruction,
                                      args |-> received,
                                      outcome |-> outcome])
       /\ IF Propagates(outcome)
          THEN pc' = "thrown" /\ result' = "none" /\ i' = i
          ELSE IF Breaks(outcome)
                  \/ i + 1 > Len(IteratedInstructions(r.events, eventsAtCall, name))
               THEN pc' = "returned" /\ result' = ResultAfterLoop(outcome) /\ i' = i
               ELSE pc' = "loop" /\ result' = "none" /\ i' = i + 1
       /\ UNCHANGED <<entry, event, eventsAtCall, calls>>

\* A client calls doEvent(ev): everything before the loop.
CallDoEvent(ev) ==
    /\ pc # "loop"
    /\ LET name == EventNameKey(ev)
           early == DoEventEarlyReturn(businessLogicEvents, name)
       IN /\ pc' = CASE early = "TypeError" -> "thrown"
                     [] early = "none" -> "loop"
                     [] OTHER -> "returned"
          /\ result' = IF early \in {"TypeError", "none"} THEN "none" ELSE early
          /\ i' = IF early = "none" THEN 1 ELSE 0
          /\ businessLogicEvents' = DoEventRegistryEffect(businessLogicEvents, name)
    /\ entry' = "doEvent"
    /\ event' = ev
    /\ eventParameters' = EventParametersOf(ev)
    /\ invoked' = <<>>
    /\ eventsAtCall' = businessLogicEvents
    /\ UNCHANGED calls
    /\ UNCHANGED added

\* doEvent: one iteration of its for-of loop.
DoEventLoop ==
    /\ pc = "loop"
    /\ entry = "doEvent"
    /\ LoopIteration

\* A client calls the compiled executeInstructionsForEvent(ev): everything
\* before the loop.  The emptiness test reads the registry under the key made
\* of the event itself.
CallExecuteInstructionsForEvent(ev) ==
    /\ pc # "loop"
    /\ LET name == EventNameKey(ev)
           has == HasOwnProperty(businessLogicEvents, name)
           key == EventKey(ev)
           outcome == CASE has = "TypeError" -> "TypeError"
                        [] has = "false" -> "false"
                        [] key \notin DOMAIN businessLogicEvents -> "TypeError"
                        [] Len(businessLogicEvents[key].eventInstructions) = 0 -> "false"
                        [] OTHER -> "none"
       IN /\ pc' = CASE outcome = "TypeError" -> "thrown"
                     [] outcome = "none" -> "loop"
                     [] OTHER -> "returned"
          /\ result' = IF outcome \in {"TypeError", "none"} THEN "none" ELSE outcome
          /\ i' = IF outcome = "none" THEN 1 ELSE 0
    /\ entry' = "executeInstructionsForEvent"
    /\ event' = ev
    /\ eventParameters' = EventParametersOf(ev)
    /\ invoked' = <<>>
    /\ eventsAtCall' = businessLogicEvents
    /\ UNCHANGED calls
    /\ UNCHANGED <<businessLogicEvents, added>>

\* executeInstructionsForEvent: one iteration of its for loop.
ExecuteInstructionsForEventLoop ==
    /\ pc = "loop"
    /\ entry = "executeInstructionsForEvent"
    /\ LoopIteration

\* The service as its typed interface is used: event names of EventNames.
Next ==
    \/ \E instruction \in Instructions, eventName \in EventNames :
          CallAddInstructionToEvent(instruction, eventName)
    \/ \E ev \in Descriptors(EventNames) \cup PlainStrings(EventNames) : CallDoEvent(ev)
    \/ DoEventLoop

Spec == Init /\ [][Next]_vars

\* The compiled executeInstructionsForEvent next to the typed interface.
NextLegacy ==
    \/ \E instruction \in Instructions, eventName \in EventNames :
          CallAddInstructionToEvent(instruction, eventName)
    \/ \E ev \in Descriptors(EventNames) \cup PlainStrings(EventNames) :
          CallExecuteInstructionsForEvent(ev)
    \/ ExecuteInstructionsForEventLoop

SpecLegacy == Init /\ [][NextLegacy]_vars

\* The typed interface with any string as an event name.
NextAnyName ==
    \/ \E instruction \in Instructions, eventName \in AnyNames :
          CallAddInstructionToEvent(instruction, eventName)
    \/ \E ev \in Descriptors(AnyNames) : CallDoEvent(ev)
    \/ DoEventLoop

SpecAnyName == Init /\ [][NextAnyName]_vars

----------------------------------------------------------------------------
\* addInstructionToEvent, two calls interleaved at its steps

\* A caller enters addInstructionToEvent(instruction, eventName).
BeginAddInstructionToEvent(c, instruction, eventName) ==
    /\ calls[c].at = "idle"
    /\ TotalAdds < MaxCalls
    /\ calls' = [calls EXCEPT ![c] = [at |-> "check", instruction |-> instruction,
                                      eventName |-> eventName, absent |-> FALSE]]
    /\ added' = [added EXCEPT ![eventName] = Append(@, instruction)]
    /\ UNCHANGED <<businessLogicEvents, pc, entry, event, eventParameters, i, result,
                   invoked, eventsAtCall>>

\* if (! this._businessLogicEvents.hasOwnProperty(eventName))
CheckEventExists(c) ==
    /\ calls[c].at = "check"
    /\ LET has == HasOwnProperty(businessLogicEvents, calls[c].eventName)
       IN calls' = [calls EXCEPT ![c].at = CASE has = "TypeError" -> "idle"
                                             [] has = "false" -> "initialize"
                                             [] OTHER -> "push",
                                 ![c].absent = (has = "false")]
    /\ UNCHANGED <<businessLogicEvents, pc, entry, event, eventParameters, i, result,
                   invoked, added, eventsAtCall>>

\* this._initializeEvent(eventName)
CallInitializeEvent(c) ==
    /\ calls[c].at = "initialize"
    /\ businessLogicEvents' = InitializeEvent(businessLogicEvents, calls[c].eventName)
    /\ calls' = [calls EXCEPT ![c].at = "push"]
    /\ UNCHANGED <<pc, entry, event, eventParameters, i, result, invoked, added, eventsAtCall>>

\* this._businessLogicEvents[eventName].eventInstructions.push(instruction)
PushInstruction(c) ==
    /\ calls[c].at = "push"
    /\ businessLogicEvents' = [businessLogicEvents EXCEPT
            ![calls[c].eventName].eventInstructions = Append(@, calls[c].instruction)]
    /\ calls' = [calls EXCEPT ![c].at = "idle"]
    /\ UNCHANGED <<pc, entry, event, eventParameters, i, result, invoked, added, eventsAtCall>>

NextInterleaved ==
    \/ \E c \in Callers, instruction \in Instructions, eventName \in EventNames :
          BeginAddInstructionToEvent(c, instruction, eventName)
    \/ \E c \in Callers : CheckEventExists(c)
    \/ \E c \in Callers : CallInitializeEvent(c)
    \/ \E c \in Callers : PushInstruction(c)

SpecInterleaved == Init /\ [][NextInterleaved]_vars

----------------------------------------------------------------------------
\* Properties

\* The instruction list registered under a name (empty when there is none).
Registered(name) ==
    IF name \in DOMAIN businessLogicEvents
    THEN businessLogicEvents[name].eventInstructions
    ELSE <<>>

IsPrefix(s, t) == Len(s) <= Len(t) /\ \A k \in 1..Len(s) : s[k] = t[k]

\* The latest call is a doEvent whose loop was entered.
InDoEventLoop == entry = "doEvent" /\ i >= 1

\* C1: in a firing by doEvent, the instructions invoked are the first k of
\* the event's list, in list order and each once; every one but the last
\* returned false; and when doEvent has returned, the last one returned true
\* or the whole list was invoked.  While the loop runs, the next instruction
\* to invoke is the one right after those invoked.
C1_ShortCircuitInOrder ==
    InDoEventLoop =>
        LET list == Registered(EventNameKey(event))
            n == Len(invoked)
        IN /\ n <= Len(list)
           /\ \A k \in 1..n : invoked[k].instruction = list[k]
           /\ \A k \in 1..(n - 1) : invoked[k].outcome = "false"
           /\ pc = "loop" => /\ i = n + 1
                             /\ i <= Len(list)
                             /\ n >= 1 => invoked[n].outcome = "false"
           /\ pc = "returned" => /\ n >= 1
                                 /\ \/ invoked[n].outcome = "true"
                                    \/ invoked[n].outcome = "false" /\ n = Len(list)

\* C1 witness: of a list of three, the first returned false, the second
\* true, and the third was not invoked.
C1_Witness ==
    /\ InDoEventLoop
    /\ pc = "returned"
    /\ event.type = "object"
    /\ Len(Registered(event.eventName)) = 3
    /\ Len(invoked) = 2
    /\ invoked[1].outcome = "false"
    /\ invoked[2].outcome = "true"

\* C2: doEvent returns true whenever the fired event has at least one
\* instruction registered and doEvent returns at all, whether an instruction
\* returned true or all of them returned false.
C2_ReturnsTrueWhenRegistered ==
    (entry = "doEvent" /\ pc = "returned" /\ Len(Registered(EventNameKey(event))) >= 1)
        => result = "true"

\* C2 witness: doEvent returned after two instructions that both returned false.
C2_Witness ==
    /\ entry = "doEvent"
    /\ pc = "returned"
    /\ result = "true"
    /\ Len(invoked) = 2
    /\ \A k \in 1..2 : invoked[k].outcome = "false"

\* C3: doEvent with a descriptor whose name was never passed to
\* addInstructionToEvent returns false and invokes no instruction.
C3_UnregisteredReturnsFalse ==
    (entry = "doEvent" /\ event.type = "object" /\ added[event.eventName] = <<>>)
        => /\ pc = "returned"
           /\ result = "false"
           /\ invoked = <<>>

\* C3 witness: such a firing, while other events are registered.
C3_Witness ==
    /\ entry = "doEvent"
    /\ event.type = "object"
    /\ added[event.eventName] = <<>>
    /\ \E n \in EventNames : Len(Registered(n)) >= 2

\* C4: the list of every event is exactly the instructions passed to
\* addInstructionToEvent under its name, in call order, and every step keeps
\* each existing list as a prefix of the list after it.
C4_AppendOnly ==
    /\ [](\A n \in AnyNames : Registered(n) = added[n])
    /\ [][\A n \in DOMAIN businessLogicEvents :
             /\ n \in DOMAIN businessLogicEvents'
             /\ IsPrefix(businessLogicEvents[n].eventInstructions,
                         businessLogicEvents'[n].eventInstructions)]_vars

\* C4 witness: addInstructionToEvent was just called for a name that already
\* had two instructions, and the list now has three.
C4_Witness ==
    /\ entry = "addInstructionToEvent"
    /\ pc = "returned"
    /\ \E n \in DOMAIN eventsAtCall :
          /\ Len(eventsAtCall[n].eventInstructions) = 2
          /\ Len(Registered(n)) = 3

\* C5 as stated: every instruction invoked in a firing observes the
\* parameters as they were passed to doEvent.
C5_ParametersAsPassed ==
    entry = "doEvent" =>
        \A k \in 1..Len(invoked) : invoked[k].args = EventParametersOf(event)

\* C5 amended: every instruction invoked receives the one array passed to
\* doEvent, which doEvent neither copies nor writes: the first observes the
\* contents as passed, each later one the contents as the instruction
\* before it left them.
C5_ParametersShared ==
    entry = "doEvent" =>
        /\ \A k \in 1..Len(invoked) :
              invoked[k].args = IF k = 1
                                THEN EventParametersOf(event)
                                ELSE ArgsAfter(invoked[k - 1].instruction, invoked[k - 1].args)
        /\ (\A k \in 1..Len(invoked) : invoked[k].instruction # "resetDays")
              => eventParameters = EventParametersOf(event)

\* C5 witness: the second instruction of a firing observed what the first wrote.
C5_Witness ==
    /\ entry = "doEvent"
    /\ Len(invoked) >= 2
    /\ invoked[1].instruction = "resetDays"
    /\ invoked[2].args # EventParametersOf(event)

\* C6: a registry entry exists for exactly the names passed to
\* addInstructionToEvent, and a step of doEvent in which no instruction calls
\* addInstructionToEvent leaves the registry as it was.
C6_DoEventKeepsRegistry ==
    /\ [](DOMAIN businessLogicEvents = {n \in AnyNames : added[n] # <<>>})
    /\ [][(entry' = "doEvent" /\ added' = added)
             => businessLogicEvents' = businessLogicEvents]_vars

\* C6 witness: an unregistered name was fired while another is registered.
C6_Witness ==
    /\ entry = "doEvent"
    /\ pc = "returned"
    /\ EventNameKey(event) \notin DOMAIN businessLogicEvents
    /\ businessLogicEvents # <<>>
    /\ businessLogicEvents = eventsAtCall

\* C7: doEvent called with the plain name string returns what the call with
\* a descriptor of that name returns (true exactly if the name is
\* registered) and invokes instructions of that name's list.
C7_PlainStringFiresName ==
    (entry = "doEvent" /\ event.type = "string" /\ pc = "returned")
        => /\ result = IF Len(Registered(event.value)) >= 1 THEN "true" ELSE "false"
           /\ IsPrefix([k \in 1..Len(invoked) |-> invoked[k].instruction],
                       Registered(event.value))
           /\ result = "true" => invoked # <<>>

C9_AddNeverFails ==
    /\ entry = "addInstructionToEvent" => pc = "returned"
    /\ \A n \in AnyNames : Len(Registered(n)) = Len(added[n])

\* C10: executeInstructionsForEvent with a descriptor of a registered name
\* does what doEvent does: it invokes instructions of that list, returns
\* true, and is left by an exception only when an instruction threw.
C10_LegacyAsDoEvent ==
    (/\ entry = "executeInstructionsForEvent"
     /\ event.type = "object"
     /\ Len(Registered(event.eventName)) >= 1
     /\ pc # "loop")
        => /\ invoked # <<>>
           /\ IsPrefix([k \in 1..Len(invoked) |-> invoked[k].instruction],
                       Registered(event.eventName))
           /\ pc = "returned" => result = "true"
           /\ pc = "thrown" => invoked[Len(invoked)].outcome = "throw"

\* The instruction list a name had when the latest call began.
RegisteredAtCall(name) ==
    IF name \in DOMAIN eventsAtCall
    THEN eventsAtCall[name].eventInstructions
    ELSE <<>>

\* C11: every registered event has at least one instruction, and a doEvent
\* that returns has returned true exactly if the name it fired was
\* registered when it was called.
C11_RegisteredIsNonEmpty ==
    /\ \A n \in DOMAIN businessLogicEvents : Len(businessLogicEvents[n].eventInstructions) >= 1
    /\ (entry = "doEvent" /\ pc = "returned")
          => (result = "true" <=> EventNameKey(event) \in DOMAIN eventsAtCall)

\* C11 witness: two names are registered, one was fired and doEvent returned
\* true.
C11_Witness ==
    /\ entry = "doEvent"
    /\ pc = "returned"
    /\ result = "true"
    /\ Cardinality(DOMAIN businessLogicEvents) = 2
    /\ Len(invoked) = 1

\* C12: a step changes the list or the existence of an event only if
\* addInstructionToEvent was called with that event's name in it, and every
\* instruction invoked in a firing is, at its position, the instruction of
\* the fired event's own list.
C12_EventsIsolated ==
    /\ [][\A n \in AnyNames :
             added'[n] = added[n]
                => /\ (n \in DOMAIN businessLogicEvents') = (n \in DOMAIN businessLogicEvents)
                   /\ Registered(n)' = Registered(n)]_vars
    /\ [](entry = "doEvent" =>
             \A k \in 1..Len(invoked) :
                /\ k <= Len(Registered(EventNameKey(event)))
                /\ invoked[k].instruction = Registered(EventNameKey(event))[k])

\* C12 witness: a second event was just registered while the first kept its
\* list of two.
C12_Witness ==
    /\ entry = "addInstructionToEvent"
    /\ pc = "returned"
    /\ \E n \in DOMAIN eventsAtCall, m \in DOMAIN businessLogicEvents :
          /\ m \notin DOMAIN eventsAtCall
          /\ Len(eventsAtCall[n].eventInstructions) = 2
          /\ Registered(n) = eventsAtCall[n].eventInstructions

\* Instructions of the fired event's list that the loop has not reached yet.
Remaining == Len(Registered(EventNameKey(event))) - Len(invoked)

\* C13: every iteration of doEvent's loop either ends the firing or leaves
\* fewer instructions to invoke than there were before it, so that the
\* firing ends, whatever the instructions do.
C13_FiringTerminates ==
    [][(pc = "loop" /\ entry = "doEvent")
          => (pc' # "loop" \/ Remaining' < Remaining)]_vars

\* A firing of an event whose list held only registerMore, registered to the
\* fired event itself, is still in its loop after every iteration.
C13_SelfRegisteringStaysInLoop ==
    (/\ entry = "doEvent"
     /\ i >= 1
     /\ EventNameKey(event) = RegisterMoreTarget
     /\ \A k \in 1..Len(RegisteredAtCall(RegisterMoreTarget)) :
           RegisteredAtCall(RegisterMoreTarget)[k] = "registerMore")
        => pc = "loop" /\ Remaining >= 1

\* How often x occurs in the sequence s.
Count(s, x) == Cardinality({k \in 1..Len(s) : s[k] = x})

\* Calls of addInstructionToEvent(x, n) that are under way.
Pending(n, x) ==
    Cardinality({c \in Callers : /\ calls[c].at # "idle"
                                 /\ calls[c].eventName = n
                                 /\ calls[c].instruction = x})

\* C14: with two addInstructionToEvent calls interleaved at their steps,
\* every instruction passed under a name is in that name's list once for
\* each finished call that passed it: no push is lost to a second creation
\* of the entry, and the entry exists once a call for it is past its
\* initialization.
C14_NoInstructionLost ==
    /\ \A n \in EventNames : \A x \in Instructions :
          Count(Registered(n), x) + Pending(n, x) = Count(added[n], x)
    /\ \A c \in Callers :
          calls[c].at = "push" => calls[c].eventName \in DOMAIN businessLogicEvents

\* C14 witness: both callers found the same name absent at their existence
\* check, both calls are finished, and the list holds both instructions.
C14_Witness ==
    /\ \A c \in Callers : calls[c].at = "idle" /\ calls[c].absent
    /\ calls["first"].eventName = calls["second"].eventName
    /\ calls["first"].instruction # calls["second"].instruction
    /\ Len(Registered(calls["first"].eventName)) = 2
    /\ Len(added[calls["first"].eventName]) = 2

\* C15: doEvent's loop follows the list as it is now: after an invocation
\* that returned false the loop goes on exactly if the fired event's list,
\* with what was appended to it during the firing, holds a further
\* instruction, which is then the next one invoked; a firing of an event to
\* which nothing was appended invokes no more instructions than its list
\* held when doEvent was called.
C15_LiveList ==
    /\ [][(pc = "loop" /\ entry = "doEvent" /\ invoked'[Len(invoked')].outcome = "false")
             => /\ (pc' = "loop") = (Len(invoked') < Len(Registered(EventNameKey(event))'))
                /\ pc' = "loop" => i' = Len(invoked') + 1]_vars
    /\ [](entry = "doEvent" =>
             /\ \A k \in 1..Len(invoked) :
                   invoked[k].instruction = Registered(EventNameKey(event))[k]
             /\ Registered(EventNameKey(event)) = RegisteredAtCall(EventNameKey(event))
                   => Len(invoked) <= Len(RegisteredAtCall(EventNameKey(event))))

\* C15 witness: an instruction appended to the fired event during the firing
\* was invoked in it.
C15_Witness ==
    /\ entry = "doEvent"
    /\ Len(invoked) > Len(RegisteredAtCall(EventNameKey(event)))
    /\ invoked[Len(invoked)].instruction = "registerMore"

\* C15 witness of the other half: a firing that appended to another event
\* has returned after invoking its own list only.
C15_OtherEventNotInvoked ==
    /\ entry = "doEvent"
    /\ pc = "returned"
    /\ EventNameKey(event) # RegisterMoreTarget
    /\ \E k \in 1..Len(invoked) : invoked[k].instruction = "registerMore"
    /\ Len(invoked) = Len(RegisteredAtCall(EventNameKey(event)))
    /\ Len(Registered(RegisterMoreTarget)) > Len(RegisteredAtCall(RegisterMoreTarget))

====
